---- MODULE Spec2Model ----
(***************************************************************************)
(* civil-gateway: an authenticating reverse proxy in front of a pool of    *)
(* tile servers discovered through AWS Cloud Map.                          *)
(*                                                                         *)
(* The model follows src/backend.go (BackendManager), src/main.go (main,   *)
(* the proxy Director, CORSMiddleware), src/unnamed/part_005 (RequireAuth) *)
(* and src/unnamed/part_004 (HealthCheckHandler).                          *)
(*                                                                         *)
(* Processes: the poller (the initial refresh StartPolling runs on main's  *)
(* goroutine, then the ticker goroutine) and one goroutine per inbound     *)
(* request (net/http).  A request's middleware chain touches no shared     *)
(* state and is one step; NextEndpoint is split at each access to the      *)
(* shared BackendManager fields.                                           *)
(***************************************************************************)
EXTENDS Integers, Sequences, FiniteSets, TLC

(***************************************************************************)
(* Bounds of the model.                                                    *)
(***************************************************************************)
\* Longest instance list a DiscoverInstances call returns in the model
\* (the code asks for at most 100, backend.go:73).
MaxInstances == 2
\* Selections admitted in one run (rrCounter is a uint64 and does not wrap
\* within any feasible run; the wrap itself is studied separately).
MaxSelections == 4
\* Width of rrCounter in the model (uint64 in the code, backend.go:24).
CounterBits == 3
\* Largest pool the selection study starts from.
MaxPool == 3
CounterModulus == 2 ^ CounterBits

(***************************************************************************)
(* Small generic helpers.                                                  *)
(***************************************************************************)
Range(s) == {s[i] : i \in 1..Len(s)}

\* Sequences over S of length at most n.
SeqsUpTo(S, n) == UNION {[1..k -> S] : k \in 0..n}

\* Sequences over S of length at most n that name no element twice.
DistinctSeqsUpTo(S, n) ==
  {s \in SeqsUpTo(S, n) : \A i, j \in 1..Len(s) : i # j => s[i] # s[j]}

(***************************************************************************)
(* Strings.  A Go string is modelled as the sequence of its lexical pieces *)
(* ("http", "://", "10.0.0.5", ":", "8080"), so that concatenation,        *)
(* prefix tests and URL parsing are computed, not assumed.  "" is << >>.   *)
(***************************************************************************)
EmptyString == << >>

\* strings.HasPrefix
HasPrefix(s, prefix) ==
  /\ Len(s) >= Len(prefix)
  /\ SubSeq(s, 1, Len(prefix)) = prefix

\* strings.TrimPrefix
TrimPrefix(s, prefix) ==
  IF HasPrefix(s, prefix) THEN SubSeq(s, Len(prefix) + 1, Len(s)) ELSE s

(***************************************************************************)
(* The service registry (Cloud Map), seen through DiscoverInstances.       *)
(* An instance is its Attributes map; a key that is absent reads as "".    *)
(***************************************************************************)
RegistryInstances ==
  { [AWS_INSTANCE_IPV4 |-> <<"10.0.0.5">>, AWS_INSTANCE_PORT |-> <<"8080">>],
    [AWS_INSTANCE_IPV4 |-> <<"10.0.0.6">>],
    [AWS_INSTANCE_PORT |-> <<"8080">>] }

\* A map lookup inst.Attributes[key]: the zero value "" for a missing key.
Attr(inst, key) == IF key \in DOMAIN inst THEN inst[key] ELSE EmptyString

\* What one DiscoverInstances call can return: an error, or the healthy
\* instances (each registered instance once), possibly none.
RegistryResults ==
  { [err |-> TRUE, instances |-> << >>] } \cup
  { [err |-> FALSE, instances |-> s] :
      s \in DistinctSeqsUpTo(RegistryInstances, MaxInstances) }

(***************************************************************************)
(* refreshEndpoints, the pure part: backend.go:80-93.                      *)
(***************************************************************************)
\* backend.go:86-92: the address of one instance, or nothing without an IP.
InstanceEndpointMut(inst) ==
  << <<"http", "://">> \o Attr(inst, "AWS_INSTANCE_IPV4") \o <<":">>
       \o Attr(inst, "AWS_INSTANCE_PORT") >>
InstanceEndpoint(inst) ==
  LET ip   == Attr(inst, "AWS_INSTANCE_IPV4")
      port == Attr(inst, "AWS_INSTANCE_PORT")
      addr == IF port # EmptyString THEN ip \o <<":">> \o port ELSE ip
  IN  IF ip # EmptyString THEN << <<"http", "://">> \o addr >> ELSE << >>

\* backend.go:80-93: newEndpoints, appended in the order of output.Instances.
RECURSIVE BuildEndpoints(_)
BuildEndpoints(instances) ==
  IF instances = << >>
    THEN << >>
    ELSE InstanceEndpoint(Head(instances)) \o BuildEndpoints(Tail(instances))

\* backend.go:95: only a non-empty newEndpoints is published.
ShouldPublishMut(newEps) == TRUE
ShouldPublish(newEps) == Len(newEps) > 0

\* backend.go:97: the list is replaced wholesale.
PublishedListMut(old, newEps) == old \o newEps
PublishedList(old, newEps) == newEps

(***************************************************************************)
(* sync.RWMutex bm.mu: any number of readers or one writer.                *)
(***************************************************************************)
RLockFree(m) == ~m.writer

LockFreeMut(m) == ~m.writer
LockFree(m) == ~m.writer /\ m.readers = 0

(***************************************************************************)
(* NextEndpoint, the pure parts: backend.go:107-114.                       *)
(***************************************************************************)
\* backend.go:107
IsEmptyMut(list) == FALSE
IsEmpty(list) == Len(list) = 0

\* backend.go:112: atomic.AddUint64(&bm.rrCounter, 1), the new value.
AddUint64Mut(counter, delta) == counter
AddUint64(counter, delta) == (counter + delta) % CounterModulus

\* backend.go:121
IsReadyMut(list) == TRUE
IsReady(list) == Len(list) > 0

\* backend.go:113: val % uint64(len(bm.endpoints)), for a non-empty list.
RoundRobinIndexMut(val, n) == 0
RoundRobinIndex(val, n) == val % n

NoError == ""
ErrNoEndpoints == "no healthy endpoints available"
PanicDivide == "panic: integer divide by zero"
PanicIndex == "panic: index out of range"

(***************************************************************************)
(* Inbound requests.                                                       *)
(***************************************************************************)
\* The raw ID tokens clients present.  What the identity provider's keys
\* and the token's payload make of each is given by IDToken below.
Tokens ==
  { "tok_ok", "tok_two_aud", "tok_other_aud", "tok_no_aud",
    "tok_bad_sig", "tok_bad_sig_other_aud", "tok_bad_claims" }

\* The Authorization header values in the model; << >> is an absent header
\* (r.Header.Get returns "").
AuthorizationHeaders ==
  { EmptyString, <<"Basic", " ", "dXNlcjpwdw==">>, <<"Bearer">> } \cup
  { <<"Bearer", " ", t>> : t \in Tokens }

\* The ?token= query parameter: absent, or a raw token.
QueryTokens == { EmptyString, <<"tok_ok">> }

\* How the request named its host (net/http, readRequest): origin-form with
\* a Host header (r.Host from the header, r.URL without scheme and host),
\* absolute-form (r.URL keeps scheme and host, r.Host is the URL's host), and
\* an HTTP/1.0 request without a Host header (all empty).
InboundForms ==
  { [host |-> <<"civillabs.app">>, urlScheme |-> EmptyString, urlHost |-> EmptyString],
    [host |-> <<"198.51.100.7">>, urlScheme |-> <<"http">>,
     urlHost |-> <<"198.51.100.7">>],
    [host |-> EmptyString, urlScheme |-> EmptyString, urlHost |-> EmptyString] }

\* r.RemoteAddr
RemoteAddrs ==
  { <<"203.0.113.9", ":", "51000">>, <<"203.0.113.10", ":", "40000">> }

TilesRequests ==
  [ path : {"/tiles/x"}, method : {"GET", "OPTIONS"},
    authorization : AuthorizationHeaders, query : QueryTokens,
    host : {<<"civillabs.app">>}, urlScheme : {EmptyString},
    urlHost : {EmptyString}, remoteAddr : {<<"203.0.113.9", ":", "51000">>} ]

HealthRequests ==
  [ path : {"/health"}, method : {"GET"},
    authorization : {EmptyString}, query : {EmptyString},
    host : {<<"civillabs.app">>}, urlScheme : {EmptyString},
    urlHost : {EmptyString}, remoteAddr : {<<"203.0.113.9", ":", "51000">>} ]

\* A tiles request that passes every middleware stage.
AuthenticRequest ==
  [ path |-> "/tiles/x", method |-> "GET",
    authorization |-> <<"Bearer", " ", "tok_ok">>, query |-> EmptyString,
    host |-> <<"civillabs.app">>, urlScheme |-> EmptyString,
    urlHost |-> EmptyString, remoteAddr |-> <<"203.0.113.9", ":", "51000">> ]

\* The authentic request in every inbound form, from every remote address.
ForwardedRequests ==
  { [AuthenticRequest EXCEPT !.host = f.host, !.urlScheme = f.urlScheme,
                             !.urlHost = f.urlHost, !.remoteAddr = a] :
      f \in InboundForms, a \in RemoteAddrs }

Requests == TilesRequests \cup ForwardedRequests \cup HealthRequests

NoRequest ==
  [ path |-> "", method |-> "", authorization |-> EmptyString,
    query |-> EmptyString, host |-> EmptyString, urlScheme |-> EmptyString,
    urlHost |-> EmptyString, remoteAddr |-> EmptyString ]

(***************************************************************************)
(* The identity provider, seen through go-oidc: verifier.Verify and        *)
(* idToken.Claims (part_005:68, 80, 97).                                   *)
(***************************************************************************)
\* verifier.Verify: signature, expiry and issuer; the audience is not
\* checked here (SkipClientIDCheck, part_005:44-46).
IDToken(raw) ==
  CASE raw = <<"tok_ok">> ->
         [ok |-> TRUE, audience |-> <<"civil-prototype-frontend">>, claimsOK |-> TRUE]
    [] raw = <<"tok_two_aud">> ->
         [ok |-> TRUE, audience |-> <<"other-client", "civil-prototype-frontend">>,
          claimsOK |-> TRUE]
    [] raw = <<"tok_other_aud">> ->
         [ok |-> TRUE, audience |-> <<"other-client">>, claimsOK |-> TRUE]
    [] raw = <<"tok_no_aud">> ->
         [ok |-> TRUE, audience |-> << >>, claimsOK |-> TRUE]
    [] raw = <<"tok_bad_claims">> ->
         [ok |-> TRUE, audience |-> <<"civil-prototype-frontend">>, claimsOK |-> FALSE]
    [] raw = <<"tok_bad_sig">> ->
         [ok |-> FALSE, audience |-> <<"civil-prototype-frontend">>, claimsOK |-> TRUE]
    [] OTHER ->  \* "tok_bad_sig_other_aud", and anything that is no token
         [ok |-> FALSE, audience |-> <<"other-client">>, claimsOK |-> TRUE]

\* main.go:208
AllowedClientIDs == <<"civil-prototype-frontend">>

(***************************************************************************)
(* RequireAuth, part_005:50-108.  The middleware touches no shared state;  *)
(* AuthOutcome gives the steps it takes, in order, and how it ends.        *)
(***************************************************************************)
StatusOK == 200
StatusUnauthorized == 401
StatusInternalServerError == 500
StatusBadGateway == 502
StatusServiceUnavailable == 503

BearerPrefix == <<"Bearer", " ">>

\* part_005:52-58: the raw token, taken from the Authorization header only.
HasBearerTokenMut(r) == TRUE
HasBearerToken(r) ==
  ~(r.authorization = EmptyString \/ ~HasPrefix(r.authorization, BearerPrefix))

RawIDToken(r) == TrimPrefix(r.authorization, BearerPrefix)

\* part_005:79-87
IsValidAudienceMut(audience, allowed) == TRUE
IsValidAudience(audience, allowed) ==
  \E i \in 1..Len(audience) : \E j \in 1..Len(allowed) : audience[i] = allowed[j]

\* part_005:68-74: the verification error ends the request.
VerifyFailsMut(idToken) == FALSE
VerifyFails(idToken) == ~idToken.ok

\* part_005:97-101
ClaimsFailMut(idToken) == FALSE
ClaimsFail(idToken) == ~idToken.claimsOK

Rejected(steps, status, body) ==
  [steps |-> steps, pass |-> FALSE, status |-> status, body |-> body]

\* part_005:50-108.  Steps: "extract" (52-58), "keyset" (62-65, the remote
\* key set is built and asked to verify the signature: a call to the identity
\* provider), "verify" (68), "audience" (79-93), "claims" (96-101),
\* "attach" (104), "next" (107).
AuthOutcome(r) ==
  IF ~HasBearerToken(r)
    THEN Rejected(<<"extract">>, StatusUnauthorized,
                  "Unauthorized: Missing or invalid Bearer token")
    ELSE
      LET idToken == IDToken(RawIDToken(r)) IN
      IF VerifyFails(idToken)
        THEN Rejected(<<"extract", "keyset", "verify">>, StatusUnauthorized,
                      "Unauthorized: Invalid or expired token")
        ELSE IF ~IsValidAudience(idToken.audience, AllowedClientIDs)
          THEN Rejected(<<"extract", "keyset", "verify", "audience">>,
                        StatusUnauthorized,
                        "Unauthorized: Unrecognized client application")
          ELSE IF ClaimsFail(idToken)
            THEN Rejected(<<"extract", "keyset", "verify", "audience", "claims">>,
                          StatusInternalServerError,
                          "Internal Error: Failed to parse identity claims")
            ELSE [steps |-> <<"extract", "keyset", "verify", "audience",
                              "claims", "attach", "next">>,
                  pass |-> TRUE, status |-> 0, body |-> ""]

(***************************************************************************)
(* CORSMiddleware, main.go:224-244.                                        *)
(***************************************************************************)
\* main.go:231-233
CORSHeaders ==
  [ AccessControlAllowOrigin  |-> << "*" >>,
    AccessControlAllowMethods |-> << "GET, OPTIONS" >>,
    AccessControlAllowHeaders |-> << "Content-Type, Authorization" >> ]

NoHeaders ==
  [ AccessControlAllowOrigin  |-> << >>,
    AccessControlAllowMethods |-> << >>,
    AccessControlAllowHeaders |-> << >> ]

\* main.go:236
IsPreflightMut(r) == FALSE
IsPreflight(r) == r.method = "OPTIONS"

NoResponse == [status |-> 0, body |-> "", header |-> NoHeaders]

(***************************************************************************)
(* HealthCheckHandler, part_004:16-39.                                     *)
(***************************************************************************)
HealthResponse(ready) ==
  IF ready
    THEN [status |-> StatusOK, body |-> "OK", header |-> NoHeaders]
    ELSE [status |-> StatusServiceUnavailable,
          body |-> "No tile servers available", header |-> NoHeaders]

(***************************************************************************)
(* The reverse proxy: httputil.ReverseProxy with the Director and the      *)
(* ModifyResponse of main.go:152-206.                                      *)
(***************************************************************************)
\* r.URL.Path, as tokens.
URLPath(r) ==
  CASE r.path = "/tiles/x" -> <<"/tiles", "/x">>
    [] r.path = "/health"  -> <<"/health">>
    [] OTHER               -> EmptyString

\* The headers the Director writes; << >> is an absent header.
NoForwardingHeaders ==
  [ XForwardedHost |-> << >>, XForwardedProto |-> << >>, XRealIP |-> << >> ]

NoOutReq ==
  [ urlScheme |-> EmptyString, urlHost |-> EmptyString, host |-> EmptyString,
    path |-> EmptyString, remoteAddr |-> EmptyString,
    header |-> NoForwardingHeaders ]

\* ReverseProxy.ServeHTTP: the outgoing request is a clone of the inbound
\* one, as the handler chain of main.go:216 passed it on.
CloneRequest(r) ==
  [ urlScheme |-> r.urlScheme, urlHost |-> r.urlHost, host |-> r.host,
    path |-> URLPath(r), remoteAddr |-> r.remoteAddr,
    header |-> NoForwardingHeaders ]

\* main.go:172: url.Parse of "scheme://host"
URLParse(str) ==
  IF \E i \in 1..Len(str) : str[i] = "://"
    THEN LET i == CHOOSE i \in 1..Len(str) : str[i] = "://"
         IN  [scheme |-> SubSeq(str, 1, i - 1), host |-> SubSeq(str, i + 1, Len(str))]
    ELSE [scheme |-> EmptyString, host |-> EmptyString]

\* main.go:163-167
OriginalHostMut(out) == out.urlHost
OriginalHost(out) ==
  IF out.host = EmptyString THEN out.urlHost ELSE out.host

\* main.go:163-189: the Director's rewrite once NextEndpoint has returned
\* targetStr.
Director(out, targetStr) ==
  LET originalHost == OriginalHost(out)
      targetURL    == URLParse(targetStr)
  IN  [ out EXCEPT !.urlScheme = targetURL.scheme,
                   !.urlHost = targetURL.host,
                   !.host = targetURL.host,
                   !.header = [ XForwardedHost  |-> << originalHost >>,
                                XForwardedProto |-> << <<"https">> >>,
                                XRealIP         |-> << out.remoteAddr >> ] ]

\* http.Transport.RoundTrip sends only to an http or https URL with a host.
Dialable(out) ==
  /\ out.urlScheme \in { <<"http">>, <<"https">> }
  /\ out.urlHost # EmptyString

\* The CORS headers a backend may put on its response.
BackendHeaders ==
  { NoHeaders,
    [ AccessControlAllowOrigin  |-> << "https://tiles.internal" >>,
      AccessControlAllowMethods |-> << >>,
      AccessControlAllowHeaders |-> << >> ],
    [ AccessControlAllowOrigin  |-> << "*" >>,
      AccessControlAllowMethods |-> << "GET" >>,
      AccessControlAllowHeaders |-> << "Range" >> ] }

\* main.go:196-205
ModifyResponseMut(header) == header
ModifyResponse(header) ==
  [ header EXCEPT !.AccessControlAllowOrigin = << >>,
                  !.AccessControlAllowMethods = << >>,
                  !.AccessControlAllowHeaders = << >> ]

\* ReverseProxy.ServeHTTP: the upstream headers are added to the headers the
\* response writer holds already.
CopyHeader(dst, src) ==
  [ AccessControlAllowOrigin  |->
      dst.AccessControlAllowOrigin \o src.AccessControlAllowOrigin,
    AccessControlAllowMethods |->
      dst.AccessControlAllowMethods \o src.AccessControlAllowMethods,
    AccessControlAllowHeaders |->
      dst.AccessControlAllowHeaders \o src.AccessControlAllowHeaders ]

(***************************************************************************)
(* State.                                                                  *)
(***************************************************************************)
\* The request goroutines of the model.
Callers == {"g1", "g2", "g3"}

VARIABLES
  mainpc,        \* main: "StartPolling", "main", then "ListenAndServe"
  ctxDone,       \* the context of main.go:139 has been cancelled
  history,       \* what an observer of the run has noted down
  endpoints,     \* bm.endpoints
  rrCounter,     \* bm.rrCounter
  mu,            \* bm.mu: [readers, writer]
  ppc,           \* the poller's position
  before,        \* bm.endpoints as the running refresh found it
  output,        \* refreshEndpoints: what DiscoverInstances returned
  newEndpoints,  \* refreshEndpoints: the local newEndpoints
  hpc,           \* each request goroutine's position
  req,           \* each request goroutine's request
  steps,         \* the stages each request has been through, in order
  sel,           \* NextEndpoint's locals and what it read, per goroutine
  outreq,        \* the proxy's outgoing request, per goroutine
  upstream,      \* the CORS headers of the backend's response, per goroutine
  resp           \* the response each request was given

vars ==
  << mainpc, ctxDone, history, endpoints, rrCounter, mu, ppc, before, output, newEndpoints,
     hpc, req, steps, sel, outreq, upstream, resp >>

pollerVars == << ppc, before, output, newEndpoints >>
handlerVars == << hpc, req, steps, sel, outreq, upstream, resp >>

NoOutput == [err |-> FALSE, instances |-> << >>]

NoSel ==
  [ val |-> -1, index |-> -1, target |-> EmptyString, err |-> NoError,
    seenCheck |-> << >>, seenMod |-> << >>, seenIndex |-> << >> ]

\* The observer's notes: whether one refresh has run to its end, how many
\* executions of refreshEndpoints have been entered and not yet left, and,
\* when a trace is kept, the counter value the trace started from and the
\* addresses NextEndpoint has returned since, in order.
NoHistory ==
  [ refreshed |-> FALSE, active |-> 0, keep |-> FALSE, start |-> 0,
    log |-> << >> ]

\* NewBackendManager (backend.go:34-40) and main up to StartPolling.
Init ==
  /\ mainpc = "StartPolling"
  /\ ctxDone = FALSE
  /\ history = NoHistory
  /\ endpoints = << >>
  /\ rrCounter = 0
  /\ mu = [readers |-> 0, writer |-> FALSE]
  /\ ppc = "refresh"
  /\ before = << >>
  /\ output = NoOutput
  /\ newEndpoints = << >>
  /\ hpc = [c \in Callers |-> "idle"]
  /\ req = [c \in Callers |-> NoRequest]
  /\ steps = [c \in Callers |-> << >>]
  /\ sel = [c \in Callers |-> NoSel]
  /\ outreq = [c \in Callers |-> NoOutReq]
  /\ upstream = [c \in Callers |-> NoHeaders]
  /\ resp = [c \in Callers |-> NoResponse]

(***************************************************************************)
(* The poller: StartPolling (backend.go:44-65) and refreshEndpoints        *)
(* (backend.go:67-100).                                                    *)
(***************************************************************************)
\* backend.go:69: refreshEndpoints is entered and DiscoverInstances is sent.
CallDiscover ==
  /\ ppc = "refresh"
  /\ ppc' = "discover"
  /\ before' = endpoints
  /\ history' = [history EXCEPT !.active = @ + 1]
  /\ UNCHANGED ctxDone
  /\ UNCHANGED << mainpc, endpoints, rrCounter, mu, output, newEndpoints,
                  handlerVars >>

\* backend.go:69-95: the call returns; on an error the refresh returns, else
\* newEndpoints is built and, when it is empty, the refresh returns.
DiscoverReturns(result) ==
  /\ ppc = "discover"
  /\ output' = result
  /\ newEndpoints' = IF result.err THEN << >> ELSE BuildEndpoints(result.instances)
  /\ ppc' = IF ~result.err /\ ShouldPublish(newEndpoints') THEN "lock" ELSE "return"
  /\ UNCHANGED << ctxDone, history >>
  /\ UNCHANGED << mainpc, endpoints, rrCounter, mu, before, handlerVars >>

\* backend.go:95-96: the lock is asked for once newEndpoints is built and
\* found non-empty.
AtLockMut(p) == p \in {"discover", "lock"}
AtLock(p) == p = "lock"

\* backend.go:96: bm.mu.Lock()
Lock ==
  /\ AtLock(ppc)
  /\ LockFree(mu)
  /\ mu' = [mu EXCEPT !.writer = TRUE]
  /\ ppc' = "locked"
  /\ UNCHANGED << ctxDone, history >>
  /\ UNCHANGED << mainpc, endpoints, rrCounter, before, output, newEndpoints,
                  handlerVars >>

\* backend.go:97-98: the assignment and bm.mu.Unlock()
Publish ==
  /\ ppc = "locked"
  /\ endpoints' = PublishedList(endpoints, newEndpoints)
  /\ mu' = [mu EXCEPT !.writer = FALSE]
  /\ ppc' = "return"
  /\ UNCHANGED << ctxDone, history >>
  /\ UNCHANGED << mainpc, rrCounter, before, output, newEndpoints, handlerVars >>

\* refreshEndpoints returns: to StartPolling, which ran the first refresh
\* itself (backend.go:46), or to the loop of the polling goroutine
\* (backend.go:61).
RefreshReturns ==
  /\ ppc = "return"
  /\ ppc' = IF mainpc = "StartPolling" THEN "go" ELSE "select"
  /\ before' = << >>
  /\ output' = NoOutput
  /\ newEndpoints' = << >>
  /\ history' = [history EXCEPT !.refreshed = TRUE, !.active = @ - 1]
  /\ UNCHANGED << mainpc, ctxDone, endpoints, rrCounter, mu, handlerVars >>

\* backend.go:46-48: StartPolling goes on once its own call of
\* refreshEndpoints has returned.
FirstRefreshOverMut(p) == TRUE
FirstRefreshOver(p) == p = "go"

\* backend.go:48-65: StartPolling creates the ticker, starts the polling
\* goroutine and returns to main.
StartTask ==
  /\ mainpc = "StartPolling"
  /\ FirstRefreshOver(ppc)
  /\ ppc' = "select"
  /\ mainpc' = "main"
  /\ UNCHANGED << ctxDone, history, endpoints, rrCounter, mu, before, output,
                  newEndpoints, handlerVars >>

\* main.go:152-219: main builds the proxy, registers the handlers and calls
\* ListenAndServe.
Serve ==
  /\ mainpc = "main"
  /\ mainpc' = "ListenAndServe"
  /\ UNCHANGED << ctxDone, history, endpoints, rrCounter, mu, pollerVars,
                  handlerVars >>

\* The context is cancelled (the cancel function of main.go:139).
Cancel ==
  /\ ~ctxDone
  /\ ctxDone' = TRUE
  /\ UNCHANGED << mainpc, history, endpoints, rrCounter, mu, pollerVars,
                  handlerVars >>

\* backend.go:58: ctx.Done() is ready.
DoneReadyMut(done) == FALSE
DoneReady(done) == done

\* backend.go:58-59: the select takes the ctx.Done() case and the goroutine
\* returns.
Stop ==
  /\ ppc = "select"
  /\ DoneReady(ctxDone)
  /\ ppc' = "stopped"
  /\ UNCHANGED << mainpc, ctxDone, history, endpoints, rrCounter, mu, before,
                  output, newEndpoints, handlerVars >>

\* backend.go:60-61: the ticker fires and the loop calls refreshEndpoints.
Tick ==
  /\ ppc = "select"
  /\ ppc' = "refresh"
  /\ UNCHANGED << ctxDone, history >>
  /\ UNCHANGED << mainpc, endpoints, rrCounter, mu, before, output,
                  newEndpoints, handlerVars >>

(***************************************************************************)
(* The request goroutines.  /health is HealthCheckHandler (main.go:212);   *)
(* /tiles/ is CORSMiddleware(auth(proxy)) (main.go:216).                   *)
(***************************************************************************)
\* Requests admitted to the director that have not yet taken a counter value.
Pending == Cardinality({c \in Callers : hpc[c] \in {"director", "check", "add"}})

\* The counter values taken since the start of the run.
Taken == (rrCounter + CounterModulus - history.start) % CounterModulus

\* main.go:224-239: the CORS headers are set and a preflight is answered.
Preflight(c, r) ==
  /\ mainpc = "ListenAndServe"
  /\ hpc[c] = "idle"
  /\ r.path = "/tiles/x"
  /\ IsPreflight(r)
  /\ req' = [req EXCEPT ![c] = r]
  /\ steps' = [steps EXCEPT ![c] = <<"cors">>]
  /\ resp' = [resp EXCEPT ![c] =
                [status |-> StatusOK, body |-> "", header |-> CORSHeaders]]
  /\ hpc' = [hpc EXCEPT ![c] = "done"]
  /\ UNCHANGED << ctxDone, history >>
  /\ UNCHANGED << mainpc, endpoints, rrCounter, mu, pollerVars, sel, outreq,
                  upstream >>

\* main.go:224-242 and part_005:50-101: the CORS headers are set, the request
\* is passed to RequireAuth, and RequireAuth answers it with an error.
Reject(c, r) ==
  /\ mainpc = "ListenAndServe"
  /\ hpc[c] = "idle"
  /\ r.path = "/tiles/x"
  /\ ~IsPreflight(r)
  /\ ~AuthOutcome(r).pass
  /\ req' = [req EXCEPT ![c] = r]
  /\ steps' = [steps EXCEPT ![c] = <<"cors">> \o AuthOutcome(r).steps]
  /\ resp' = [resp EXCEPT ![c] =
                [status |-> AuthOutcome(r).status, body |-> AuthOutcome(r).body,
                 header |-> CORSHeaders]]
  /\ hpc' = [hpc EXCEPT ![c] = "done"]
  /\ UNCHANGED << ctxDone, history >>
  /\ UNCHANGED << mainpc, endpoints, rrCounter, mu, pollerVars, sel, outreq,
                  upstream >>

\* main.go:224-242, part_005:50-107 and main.go:153-155: the request passes
\* RequireAuth, the proxy calls the Director, which calls NextEndpoint.
Admit(c, r) ==
  /\ mainpc = "ListenAndServe"
  /\ hpc[c] = "idle"
  /\ r.path = "/tiles/x"
  /\ ~IsPreflight(r)
  /\ AuthOutcome(r).pass
  /\ Taken + Pending < MaxSelections
  /\ req' = [req EXCEPT ![c] = r]
  /\ steps' = [steps EXCEPT ![c] = <<"cors">> \o AuthOutcome(r).steps \o <<"director">>]
  /\ hpc' = [hpc EXCEPT ![c] = "director"]
  /\ outreq' = [outreq EXCEPT ![c] = CloneRequest(r)]
  /\ UNCHANGED << ctxDone, history >>
  /\ UNCHANGED << mainpc, endpoints, rrCounter, mu, pollerVars, sel, upstream,
                  resp >>

\* backend.go:104: bm.mu.RLock()
RLock(c) ==
  /\ hpc[c] = "director"
  /\ RLockFree(mu)
  /\ mu' = [mu EXCEPT !.readers = @ + 1]
  /\ hpc' = [hpc EXCEPT ![c] = "check"]
  /\ UNCHANGED << ctxDone, history >>
  /\ UNCHANGED << mainpc, endpoints, rrCounter, pollerVars, req, steps, sel,
                  outreq, upstream, resp >>

\* backend.go:107-109: the emptiness check; on an empty list NextEndpoint
\* returns the error (the deferred RUnlock runs) and the Director logs it and
\* returns (main.go:156-161).
CheckEmpty(c) ==
  /\ hpc[c] = "check"
  /\ IF IsEmpty(endpoints)
       THEN /\ sel' = [sel EXCEPT ![c].seenCheck = endpoints,
                                  ![c].err = ErrNoEndpoints]
            /\ mu' = [mu EXCEPT !.readers = @ - 1]
            /\ steps' = [steps EXCEPT ![c] = Append(@, "select-failed")]
            /\ hpc' = [hpc EXCEPT ![c] = "roundtrip"]
       ELSE /\ sel' = [sel EXCEPT ![c].seenCheck = endpoints]
            /\ hpc' = [hpc EXCEPT ![c] = "add"]
            /\ UNCHANGED << mu, steps >>
  /\ UNCHANGED << ctxDone, history >>
  /\ UNCHANGED << mainpc, endpoints, rrCounter, pollerVars, req, outreq,
                  upstream, resp >>

\* backend.go:112: val := atomic.AddUint64(&bm.rrCounter, 1)
Add(c) ==
  /\ hpc[c] = "add"
  /\ rrCounter' = AddUint64(rrCounter, 1)
  /\ sel' = [sel EXCEPT ![c].val = rrCounter']
  /\ hpc' = [hpc EXCEPT ![c] = "mod"]
  /\ UNCHANGED << ctxDone, history >>
  /\ UNCHANGED << mainpc, endpoints, mu, pollerVars, req, steps, outreq,
                  upstream, resp >>

\* backend.go:113: index := val % uint64(len(bm.endpoints)); a zero length
\* panics, the deferred RUnlock runs and net/http recovers the goroutine.
Mod(c) ==
  /\ hpc[c] = "mod"
  /\ IF Len(endpoints) = 0
       THEN /\ sel' = [sel EXCEPT ![c].seenMod = endpoints,
                                  ![c].err = PanicDivide]
            /\ mu' = [mu EXCEPT !.readers = @ - 1]
            /\ hpc' = [hpc EXCEPT ![c] = "panicked"]
       ELSE /\ sel' = [sel EXCEPT ![c].seenMod = endpoints,
                                  ![c].index = RoundRobinIndex(sel[c].val, Len(endpoints))]
            /\ hpc' = [hpc EXCEPT ![c] = "index"]
            /\ UNCHANGED mu
  /\ UNCHANGED << ctxDone, history >>
  /\ UNCHANGED << mainpc, endpoints, rrCounter, pollerVars, req, steps, outreq,
                  upstream, resp >>

\* backend.go:114: return bm.endpoints[index], nil, and the deferred RUnlock;
\* an index past the end panics.  With the address returned the Director
\* rewrites the outgoing request (main.go:163-189).
Index(c) ==
  /\ hpc[c] = "index"
  /\ IF sel[c].index >= Len(endpoints)
       THEN /\ sel' = [sel EXCEPT ![c].seenIndex = endpoints,
                                  ![c].err = PanicIndex]
            /\ hpc' = [hpc EXCEPT ![c] = "panicked"]
            /\ UNCHANGED << steps, outreq, history >>
       ELSE /\ sel' = [sel EXCEPT ![c].seenIndex = endpoints,
                                  ![c].target = endpoints[sel[c].index + 1]]
            /\ outreq' = [outreq EXCEPT ![c] =
                            Director(@, endpoints[sel[c].index + 1])]
            /\ history' = IF history.keep
                            THEN [history EXCEPT
                                    !.log = Append(@, endpoints[sel[c].index + 1])]
                            ELSE history
            /\ steps' = [steps EXCEPT ![c] = Append(@, "selected")]
            /\ hpc' = [hpc EXCEPT ![c] = "roundtrip"]
  /\ mu' = [mu EXCEPT !.readers = @ - 1]
  /\ UNCHANGED ctxDone
  /\ UNCHANGED << mainpc, endpoints, rrCounter, pollerVars, req, upstream, resp >>

\* The proxy sends the outgoing request (httputil.ReverseProxy, configured at
\* main.go:152-206).  A request the transport cannot send, or whose host
\* cannot be reached, is answered 502 by the proxy's error handler.  A host
\* that is reached answers; ModifyResponse (main.go:196-205) runs on its
\* response and the proxy adds what is left of its headers to those the
\* CORS stage has set (main.go:231-233).
RoundTrip(c, reached, backendHeader) ==
  /\ hpc[c] = "roundtrip"
  /\ IF Dialable(outreq[c]) /\ reached
       THEN /\ upstream' = [upstream EXCEPT ![c] = backendHeader]
            /\ resp' = [resp EXCEPT ![c] =
                          [status |-> StatusOK, body |-> "",
                           header |-> CopyHeader(CORSHeaders,
                                                 ModifyResponse(backendHeader))]]
       ELSE /\ resp' = [resp EXCEPT ![c] =
                          [status |-> StatusBadGateway, body |-> "",
                           header |-> CORSHeaders]]
            /\ UNCHANGED upstream
  /\ steps' = [steps EXCEPT ![c] =
                 IF Dialable(outreq[c]) THEN Append(@, "forward") ELSE @]
  /\ hpc' = [hpc EXCEPT ![c] = "done"]
  /\ UNCHANGED << ctxDone, history >>
  /\ UNCHANGED << mainpc, endpoints, rrCounter, mu, pollerVars, req, sel, outreq >>

\* main.go:212: the mux hands /health to HealthCheckHandler.
HealthStart(c, r) ==
  /\ mainpc = "ListenAndServe"
  /\ hpc[c] = "idle"
  /\ r.path = "/health"
  /\ req' = [req EXCEPT ![c] = r]
  /\ steps' = [steps EXCEPT ![c] = <<"health">>]
  /\ hpc' = [hpc EXCEPT ![c] = "ready"]
  /\ UNCHANGED << ctxDone, history >>
  /\ UNCHANGED << mainpc, endpoints, rrCounter, mu, pollerVars, sel, outreq,
                  upstream, resp >>

\* part_004:19-37 with IsReady (backend.go:118-122): the length is read under
\* the read lock, and the response follows from it.
HealthCheck(c) ==
  /\ hpc[c] = "ready"
  /\ RLockFree(mu)
  /\ resp' = [resp EXCEPT ![c] = HealthResponse(IsReady(endpoints))]
  /\ hpc' = [hpc EXCEPT ![c] = "done"]
  /\ UNCHANGED << ctxDone, history >>
  /\ UNCHANGED << mainpc, endpoints, rrCounter, mu, pollerVars, req, steps, sel,
                  outreq, upstream >>

\* The request is over and the goroutine's state is gone.
Finish(c) ==
  /\ hpc[c] \in {"done", "panicked"}
  /\ hpc' = [hpc EXCEPT ![c] = "idle"]
  /\ req' = [req EXCEPT ![c] = NoRequest]
  /\ steps' = [steps EXCEPT ![c] = << >>]
  /\ sel' = [sel EXCEPT ![c] = NoSel]
  /\ outreq' = [outreq EXCEPT ![c] = NoOutReq]
  /\ upstream' = [upstream EXCEPT ![c] = NoHeaders]
  /\ resp' = [resp EXCEPT ![c] = NoResponse]
  /\ UNCHANGED << ctxDone, history >>
  /\ UNCHANGED << mainpc, endpoints, rrCounter, mu, pollerVars >>

(***************************************************************************)
(* Specifications.                                                         *)
(***************************************************************************)
Poller(results) ==
  \/ CallDiscover
  \/ \E result \in results : DiscoverReturns(result)
  \/ Lock
  \/ Publish
  \/ RefreshReturns
  \/ Tick

\* StartPolling returns and main starts to serve.
Startup ==
  \/ StartTask
  \/ Serve

\* NextEndpoint, step by step.
Selection(c) ==
  \/ RLock(c)
  \/ CheckEmpty(c)
  \/ Add(c)
  \/ Mod(c)
  \/ Index(c)

\* The pool manager under concurrent traffic: the poller, and on each of
\* two request goroutines an authenticated tiles request or a health check;
\* a selected backend answers (the unreachable backend is in NextGateway).
Next ==
  \/ Poller(RegistryResults)
  \/ Startup
  \/ \E c \in {"g1", "g2"} :
       \/ Admit(c, AuthenticRequest)
       \/ \E r \in HealthRequests : HealthStart(c, r)
       \/ Selection(c)
       \/ RoundTrip(c, TRUE, NoHeaders)
       \/ HealthCheck(c)
       \/ Finish(c)

Spec == Init /\ [][Next]_vars

\* The request pipeline: every request of the model on one goroutine, over a
\* registry that fails, is empty or holds one instance.
GatewayResults ==
  {res \in RegistryResults : Len(res.instances) <= 1}

NextGateway ==
  \/ Poller(GatewayResults)
  \/ Startup
  \/ \E r \in Requests :
       \/ Preflight("g1", r)
       \/ Reject("g1", r)
       \/ Admit("g1", r)
       \/ HealthStart("g1", r)
  \/ Selection("g1")
  \/ \E reached \in BOOLEAN, backendHeader \in BackendHeaders :
       RoundTrip("g1", reached, backendHeader)
  \/ HealthCheck("g1")
  \/ Finish("g1")

SpecGateway == Init /\ [][NextGateway]_vars

\* Selection against a pool of fixed size: the gateway is serving, an earlier
\* refresh has published a pool of one to MaxPool instances, and every later
\* refresh fails or finds nothing, so the list stays as it is while three
\* request goroutines select concurrently and every backend answers.
PoolInstances ==
  { [AWS_INSTANCE_IPV4 |-> <<"10.0.0.5">>, AWS_INSTANCE_PORT |-> <<"8080">>],
    [AWS_INSTANCE_IPV4 |-> <<"10.0.0.6">>],
    [AWS_INSTANCE_IPV4 |-> <<"10.0.0.7">>, AWS_INSTANCE_PORT |-> <<"8080">>] }

InitSelect ==
  /\ mainpc = "ListenAndServe"
  /\ ctxDone = FALSE
  /\ history = [NoHistory EXCEPT !.refreshed = TRUE]
  /\ endpoints \in { BuildEndpoints(s) :
                       s \in DistinctSeqsUpTo(PoolInstances, MaxPool) \ {<< >>} }
  /\ rrCounter = 0
  /\ mu = [readers |-> 0, writer |-> FALSE]
  /\ ppc = "select"
  /\ before = << >>
  /\ output = NoOutput
  /\ newEndpoints = << >>
  /\ hpc = [c \in Callers |-> "idle"]
  /\ req = [c \in Callers |-> NoRequest]
  /\ steps = [c \in Callers |-> << >>]
  /\ sel = [c \in Callers |-> NoSel]
  /\ outreq = [c \in Callers |-> NoOutReq]
  /\ upstream = [c \in Callers |-> NoHeaders]
  /\ resp = [c \in Callers |-> NoResponse]

FailingResults ==
  {res \in RegistryResults : res.err \/ res.instances = << >>}

NextSelect ==
  \/ CallDiscover
  \/ \E result \in FailingResults : DiscoverReturns(result)
  \/ RefreshReturns
  \/ Tick
  \/ \E c \in Callers :
       \/ Admit(c, AuthenticRequest)
       \/ Selection(c)
       \/ RoundTrip(c, TRUE, NoHeaders)
       \/ Finish(c)

SpecSelect == InitSelect /\ [][NextSelect]_vars

\* Selections one after the other: the gateway is serving, an earlier refresh
\* has published a pool of one to MaxPool instances, the counter stands at 0
\* or, after one earlier selection, at 1; later refreshes fail or find
\* nothing, and one goroutine handles one request after the other.  The
\* addresses returned are noted down in order.
CounterStarts == {0, 1}

InitSequence ==
  /\ mainpc = "ListenAndServe"
  /\ ctxDone = FALSE
  /\ endpoints \in { BuildEndpoints(s) :
                       s \in DistinctSeqsUpTo(PoolInstances, MaxPool) \ {<< >>} }
  /\ rrCounter \in CounterStarts
  /\ history = [refreshed |-> TRUE, active |-> 0, keep |-> TRUE,
                start |-> rrCounter, log |-> << >>]
  /\ mu = [readers |-> 0, writer |-> FALSE]
  /\ ppc = "select"
  /\ before = << >>
  /\ output = NoOutput
  /\ newEndpoints = << >>
  /\ hpc = [c \in Callers |-> "idle"]
  /\ req = [c \in Callers |-> NoRequest]
  /\ steps = [c \in Callers |-> << >>]
  /\ sel = [c \in Callers |-> NoSel]
  /\ outreq = [c \in Callers |-> NoOutReq]
  /\ upstream = [c \in Callers |-> NoHeaders]
  /\ resp = [c \in Callers |-> NoResponse]

NextSequence ==
  \/ CallDiscover
  \/ \E result \in FailingResults : DiscoverReturns(result)
  \/ RefreshReturns
  \/ Tick
  \/ Admit("g1", AuthenticRequest)
  \/ Selection("g1")
  \/ RoundTrip("g1", TRUE, NoHeaders)
  \/ Finish("g1")

SpecSequence == InitSequence /\ [][NextSequence]_vars

\* Selections one after the other across the wrap of the counter: as in
\* SpecSequence, with the counter one or two increments short of its wrap
\* (a long-running gateway).
WrapStarts == { CounterModulus - 2, CounterModulus - 1 }

InitWrap ==
  /\ mainpc = "ListenAndServe"
  /\ ctxDone = FALSE
  /\ endpoints \in { BuildEndpoints(s) :
                       s \in DistinctSeqsUpTo(PoolInstances, MaxPool) \ {<< >>} }
  /\ rrCounter \in WrapStarts
  /\ history = [refreshed |-> TRUE, active |-> 0, keep |-> TRUE,
                start |-> rrCounter, log |-> << >>]
  /\ mu = [readers |-> 0, writer |-> FALSE]
  /\ ppc = "select"
  /\ before = << >>
  /\ output = NoOutput
  /\ newEndpoints = << >>
  /\ hpc = [c \in Callers |-> "idle"]
  /\ req = [c \in Callers |-> NoRequest]
  /\ steps = [c \in Callers |-> << >>]
  /\ sel = [c \in Callers |-> NoSel]
  /\ outreq = [c \in Callers |-> NoOutReq]
  /\ upstream = [c \in Callers |-> NoHeaders]
  /\ resp = [c \in Callers |-> NoResponse]

SpecWrap == InitWrap /\ [][NextSequence]_vars

\* Shutdown: the gateway of SpecGateway's registry with one request goroutine
\* (an authenticated tiles request or a health check at a time), in which the
\* context may be cancelled at any moment.
NextShutdown ==
  \/ Poller(GatewayResults)
  \/ Startup
  \/ Cancel
  \/ Stop
  \/ Admit("g1", AuthenticRequest)
  \/ \E r \in HealthRequests : HealthStart("g1", r)
  \/ Selection("g1")
  \/ RoundTrip("g1", TRUE, NoHeaders)
  \/ HealthCheck("g1")
  \/ Finish("g1")

\* A refresh that is running goes on: the registry call returns (it carries
\* the context and the client's timeouts), and the goroutines are scheduled.
RefreshStep ==
  \/ CallDiscover
  \/ \E result \in GatewayResults : DiscoverReturns(result)
  \/ Publish
  \/ RefreshReturns
  \/ StartTask

\* Fairness: a running refresh and a running NextEndpoint go on (weak);
\* bm.mu.Lock() is granted once the readers have left, since a waiting
\* writer keeps new readers out (sync.RWMutex; strong); and the select of
\* backend.go:53 takes the ctx.Done() case sooner or later when it is ready,
\* since it chooses among its ready cases at random (strong).
SpecShutdown ==
  /\ Init
  /\ [][NextShutdown]_vars
  /\ WF_vars(RefreshStep)
  /\ SF_vars(Lock)
  /\ SF_vars(Stop)
  /\ WF_vars(Selection("g1"))

(***************************************************************************)
(* Properties.                                                             *)
(***************************************************************************)
\* The request on goroutine c went to the Director, which called NextEndpoint.
ReachedDirector(c) == \E i \in 1..Len(steps[c]) : steps[c][i] = "director"

\* NextEndpoint on goroutine c is past its emptiness check (backend.go:107).
PastCheck(c) ==
  /\ ReachedDirector(c)
  /\ hpc[c] \in {"add", "mod", "index", "roundtrip", "done", "panicked"}

\* NextEndpoint on goroutine c returned an address.
Selected(c) == sel[c].target # EmptyString

HasIP(inst) == Attr(inst, "AWS_INSTANCE_IPV4") # EmptyString

\* The refresh cycle has run to its end (refreshEndpoints is returning).
CycleOver == ppc = "return"

\* C1, as claimed: after a refresh cycle whose query returned at least one
\* instance, the address list is exactly the addresses built from the
\* returned instances, in returned order.
C1_AsClaimed ==
  (CycleOver /\ ~output.err /\ Len(output.instances) >= 1)
    => endpoints = BuildEndpoints(output.instances)

\* C1, amended: after a refresh cycle whose query returned at least one
\* instance that has an IP attribute, the address list is exactly the
\* addresses built from the returned instances, in returned order; nothing of
\* the previous list is kept.
C1_ReplacedByNewAddresses ==
  (CycleOver /\ ~output.err
     /\ \E i \in 1..Len(output.instances) : HasIP(output.instances[i]))
    => endpoints = BuildEndpoints(output.instances)

\* A cycle replaced a non-empty list by a different one.
C1_Witness ==
  /\ CycleOver
  /\ ~output.err
  /\ \E i \in 1..Len(output.instances) : HasIP(output.instances[i])
  /\ before # << >>
  /\ Range(before) \cap Range(endpoints) = {}
  /\ endpoints = BuildEndpoints(output.instances)

\* C2: after a refresh cycle whose query failed or returned no instance, the
\* address list is the list the cycle found, same addresses in the same order.
C2_FailedOrEmptyKeepsList ==
  (CycleOver /\ (output.err \/ Len(output.instances) = 0))
    => endpoints = before

\* A cycle over a non-empty list found no instance.
C2_Witness ==
  /\ CycleOver
  /\ ~output.err
  /\ Len(output.instances) = 0
  /\ before # << >>
  /\ endpoints = before

\* C3: once the address list is non-empty it stays non-empty, so IsReady does
\* not go back to false and /health does not go back from 200 to 503; and
\* when a /health request has been answered 200 the list is non-empty still.
C3_NeverEmptied ==
  /\ [][ Len(endpoints) > 0 =>
           /\ Len(endpoints') > 0
           /\ (IsReady(endpoints) => IsReady(endpoints'))
           /\ (HealthResponse(IsReady(endpoints)).status = StatusOK
                 => HealthResponse(IsReady(endpoints')).status = StatusOK) ]_vars
  /\ [](\A c \in Callers :
          (req[c].path = "/health" /\ hpc[c] = "done"
             /\ resp[c].status = StatusOK)
            => HealthResponse(IsReady(endpoints)).status = StatusOK)

\* A /health request was answered 200 and a later refresh failed.
C3_Witness ==
  /\ \E c \in Callers :
       req[c].path = "/health" /\ hpc[c] = "done" /\ resp[c].status = StatusOK
  /\ CycleOver
  /\ output.err
  /\ Len(endpoints) > 0

\* The place of address t in list.
Pos(list, t) == CHOOSE i \in 1..Len(list) : list[i] = t

\* C4: selections against one list of K addresses, ordered by the counter
\* values they obtained, go round the list in list order: each selection has
\* its own counter value, the selection with the next counter value returns
\* the next address of the list (the first after the last), and two
\* selections fewer than K counter values apart return different addresses.
C4_RoundRobin ==
  \A c1, c2 \in Callers :
    (c1 # c2 /\ Selected(c1) /\ Selected(c2)
       /\ sel[c1].seenIndex = sel[c2].seenIndex)
      => LET list == sel[c1].seenIndex
             K == Len(list)
             v1 == sel[c1].val
             v2 == sel[c2].val
         IN  /\ v1 # v2
             /\ (v2 = v1 + 1 =>
                   Pos(list, sel[c2].target) = (Pos(list, sel[c1].target) % K) + 1)
             /\ (v1 < v2 /\ v2 - v1 < K => sel[c1].target # sel[c2].target)

\* Three concurrent selections against three addresses returned all three.
C4_Witness ==
  /\ Len(endpoints) = 3
  /\ \A c \in Callers : Selected(c) /\ sel[c].seenIndex = endpoints
  /\ {sel[c].target : c \in Callers} = Range(endpoints)
  /\ sel["g1"].val = 3 /\ sel["g2"].val = 1 /\ sel["g3"].val = 2

\* C5: a NextEndpoint call that finds the list empty returns the "no healthy
\* endpoints" error: it takes no counter value, computes no index, reads no
\* element and does not panic; and no call divides by zero or indexes past
\* the end of a list.
C5_EmptyPoolFailsCleanly ==
  \A c \in Callers :
    /\ (PastCheck(c) /\ sel[c].seenCheck = << >>)
         => /\ sel[c].err = ErrNoEndpoints
            /\ hpc[c] \in {"roundtrip", "done"}
            /\ sel[c].val = -1
            /\ sel[c].index = -1
            /\ sel[c].target = EmptyString
    /\ hpc[c] # "panicked"
    /\ sel[c].err \notin {PanicDivide, PanicIndex}

\* A selection failed on the empty list while a refresh was waiting to
\* publish its first addresses.
C5_Witness ==
  \E c \in Callers :
    /\ PastCheck(c)
    /\ sel[c].seenCheck = << >>
    /\ sel[c].err = ErrNoEndpoints
    /\ ppc = "lock"
    /\ newEndpoints # << >>

\* C6: from its emptiness check to its return a selection works on one list:
\* while it holds the read lock the list it checked is the pool's list, the
\* modulo and the index read that same list, the index is within its bounds
\* and the address returned is the member of the list at that index.
C6_OneConsistentList ==
  \A c \in Callers :
    /\ (ReachedDirector(c) /\ hpc[c] \in {"add", "mod", "index"})
         => sel[c].seenCheck = endpoints
    /\ (ReachedDirector(c) /\ hpc[c] = "index")
         => /\ sel[c].seenMod = sel[c].seenCheck
            /\ sel[c].index \in 0..(Len(sel[c].seenMod) - 1)
    /\ Selected(c)
         => /\ sel[c].seenMod = sel[c].seenCheck
            /\ sel[c].seenIndex = sel[c].seenCheck
            /\ sel[c].index \in 0..(Len(sel[c].seenIndex) - 1)
            /\ sel[c].target = sel[c].seenIndex[sel[c].index + 1]
            /\ sel[c].target \in Range(sel[c].seenCheck)
    /\ hpc[c] # "panicked"

\* A selection is between its modulo and its index while a refresh waits for
\* the lock with a shorter list.
C6_Witness ==
  \E c \in Callers :
    /\ hpc[c] = "index"
    /\ ppc = "lock"
    /\ Len(newEndpoints) < Len(endpoints)
    /\ sel[c].index >= Len(newEndpoints)

(***************************************************************************)
(* Properties of the request pipeline.                                     *)
(***************************************************************************)
\* The request on goroutine c is a tiles request that is no preflight.
TilesCall(c) == req[c].path = "/tiles/x" /\ req[c].method # "OPTIONS"

InSteps(c, step) == \E i \in 1..Len(steps[c]) : steps[c][i] = step

\* The request carries "Authorization: Bearer <token>".
CarriesBearer(r) ==
  /\ Len(r.authorization) >= 2
  /\ r.authorization[1] = "Bearer"
  /\ r.authorization[2] = " "

\* What the identity provider makes of the token in the header.
HeaderToken(r) == IDToken(SubSeq(r.authorization, 3, Len(r.authorization)))

AudienceAllowed(r) ==
  \E i \in 1..Len(HeaderToken(r).audience) :
    HeaderToken(r).audience[i] \in Range(AllowedClientIDs)

\* The request's header token verifies, is meant for an allowed client and
\* decodes.
Authentic(r) ==
  /\ CarriesBearer(r)
  /\ HeaderToken(r).ok
  /\ AudienceAllowed(r)
  /\ HeaderToken(r).claimsOK

\* The request never got past the middleware: nothing was selected, nothing
\* was sent to a backend.
NotForwarded(c) ==
  /\ ~ReachedDirector(c)
  /\ ~InSteps(c, "next")
  /\ ~InSteps(c, "forward")
  /\ sel[c] = NoSel

\* C7: a tiles request that is no preflight reaches the Director only after
\* token extraction, signature verification, the audience check and the
\* decoding and attaching of the claims, in this order, all of which it
\* passed; a request that fails one of them is answered at once with an HTTP
\* error, is not forwarded and selects no backend.
C7_AuthBeforeForward ==
  \A c \in Callers :
    TilesCall(c) =>
      /\ ReachedDirector(c) =>
           /\ Authentic(req[c])
           /\ Len(steps[c]) >= 9
           /\ SubSeq(steps[c], 1, 9) =
                << "cors", "extract", "keyset", "verify", "audience", "claims",
                   "attach", "next", "director" >>
      /\ ~Authentic(req[c]) =>
           /\ hpc[c] = "done"
           /\ resp[c].status \in {401, 403, 500}
           /\ resp[c].body # ""
           /\ NotForwarded(c)

\* A verified request was sent to a backend and answered.
C7_Witness ==
  \E c \in Callers :
    /\ TilesCall(c)
    /\ hpc[c] = "done"
    /\ InSteps(c, "forward")
    /\ resp[c].status = StatusOK
    /\ steps[c] = << "cors", "extract", "keyset", "verify", "audience", "claims",
                     "attach", "next", "director", "selected", "forward" >>

\* C8: a request to the token verifier whose token verifies (signature,
\* expiry, issuer) but names no allowed audience is answered 401 or 403 and
\* is not forwarded.
C8_ForeignAudienceRejected ==
  \A c \in Callers :
    (TilesCall(c) /\ CarriesBearer(req[c]) /\ HeaderToken(req[c]).ok
       /\ ~AudienceAllowed(req[c]))
      => /\ hpc[c] = "done"
         /\ resp[c].status \in {401, 403}
         /\ NotForwarded(c)

\* A verified token for another client was refused.
C8_Witness ==
  \E c \in Callers :
    /\ TilesCall(c)
    /\ req[c].authorization = <<"Bearer", " ", "tok_other_aud">>
    /\ hpc[c] = "done"
    /\ resp[c].status = StatusUnauthorized
    /\ resp[c].body = "Unauthorized: Unrecognized client application"
    /\ InSteps(c, "audience")

\* C9: a request with no token in the Authorization header and none in the
\* query is rejected without any call to the identity provider: no key set
\* is fetched and no signature verified.
C9_NoTokenNoProviderCall ==
  \A c \in Callers :
    (TilesCall(c) /\ req[c].authorization = EmptyString
       /\ req[c].query = EmptyString)
      => /\ hpc[c] = "done"
         /\ resp[c].status \in {401, 403}
         /\ ~InSteps(c, "keyset")
         /\ ~InSteps(c, "verify")
         /\ NotForwarded(c)

\* A request without any token was refused after the extraction step.
C9_Witness ==
  \E c \in Callers :
    /\ TilesCall(c)
    /\ req[c].authorization = EmptyString
    /\ req[c].query = EmptyString
    /\ hpc[c] = "done"
    /\ steps[c] = <<"cors", "extract">>
    /\ resp[c].status = StatusUnauthorized

\* C10, as claimed: the token is taken from the Authorization: Bearer header
\* when there is one and else from the query parameter, so a request with a
\* token in the query only goes on to signature verification and is not
\* refused as carrying no token.
C10_QueryTokenFallback ==
  \A c \in Callers :
    /\ (TilesCall(c) /\ CarriesBearer(req[c]))
         => InSteps(c, "verify")
    /\ (TilesCall(c) /\ req[c].authorization = EmptyString
          /\ req[c].query # EmptyString)
         => /\ InSteps(c, "verify")
            /\ resp[c].body # "Unauthorized: Missing or invalid Bearer token"

\* The request fails authentication: no bearer token, a token that does not
\* verify (bad signature, expired, wrong issuer), or no allowed audience.
AuthFailure(r) ==
  \/ ~CarriesBearer(r)
  \/ ~HeaderToken(r).ok
  \/ ~AudienceAllowed(r)

\* The request's token verifies and is meant for an allowed client, but its
\* claims do not decode.
ClaimFailure(r) ==
  /\ CarriesBearer(r)
  /\ HeaderToken(r).ok
  /\ AudienceAllowed(r)
  /\ ~HeaderToken(r).claimsOK

\* C11: an authentication failure (missing, invalid or expired token,
\* unrecognized audience) ends the request with 401 or 403, a claim-decoding
\* failure on a verified token ends it with 500, and no status is produced by
\* both classes of failure.
C11_AuthAndClaimStatuses ==
  \A c \in Callers :
    TilesCall(c) =>
      /\ AuthFailure(req[c])
           => hpc[c] = "done" /\ resp[c].status \in {401, 403}
      /\ ClaimFailure(req[c])
           => hpc[c] = "done" /\ resp[c].status = StatusInternalServerError
      /\ \A h1, h2 \in AuthorizationHeaders :
           LET r1 == [req[c] EXCEPT !.authorization = h1]
               r2 == [req[c] EXCEPT !.authorization = h2]
           IN  (AuthFailure(r1) /\ ClaimFailure(r2))
                 => AuthOutcome(r1).status # AuthOutcome(r2).status

\* A verified token whose claims do not decode was answered 500.
C11_Witness ==
  \E c \in Callers :
    /\ TilesCall(c)
    /\ req[c].authorization = <<"Bearer", " ", "tok_bad_claims">>
    /\ hpc[c] = "done"
    /\ resp[c].status = StatusInternalServerError
    /\ resp[c].body = "Internal Error: Failed to parse identity claims"
    /\ steps[c] = <<"cors", "extract", "keyset", "verify", "audience", "claims">>

\* The request on goroutine c is a preflight of the tiles path.
PreflightCall(c) == req[c].path = "/tiles/x" /\ req[c].method = "OPTIONS"

\* C12: every OPTIONS request to /tiles/ is answered 200 with the three CORS
\* headers; it does not reach the token verifier, selects no backend and is
\* not forwarded.
C12_PreflightAnsweredAtOnce ==
  \A c \in Callers :
    PreflightCall(c) =>
      /\ hpc[c] = "done"
      /\ resp[c].status = StatusOK
      /\ resp[c].header.AccessControlAllowOrigin # << >>
      /\ resp[c].header.AccessControlAllowMethods # << >>
      /\ resp[c].header.AccessControlAllowHeaders # << >>
      /\ steps[c] = <<"cors">>
      /\ ~InSteps(c, "extract") /\ ~InSteps(c, "keyset") /\ ~InSteps(c, "verify")
      /\ NotForwarded(c)

\* A preflight that carries no token was answered 200.
C12_Witness ==
  \E c \in Callers :
    /\ PreflightCall(c)
    /\ req[c].authorization = EmptyString
    /\ hpc[c] = "done"
    /\ resp[c].status = StatusOK
    /\ resp[c].header = CORSHeaders

\* The request on goroutine c is a tiles request that has been answered.
TilesAnswered(c) == req[c].path = "/tiles/x" /\ hpc[c] = "done"

\* C13: every response to a /tiles/ request (preflight, authentication
\* failure, gateway error, upstream response) carries each of the three CORS
\* headers with exactly one value, the one the CORS stage set; a CORS header
\* the backend set is not in the response.
C13_OneCORSValueEach ==
  \A c \in Callers :
    TilesAnswered(c) =>
      /\ Len(resp[c].header.AccessControlAllowOrigin) = 1
      /\ Len(resp[c].header.AccessControlAllowMethods) = 1
      /\ Len(resp[c].header.AccessControlAllowHeaders) = 1
      /\ resp[c].header.AccessControlAllowOrigin[1] = "*"
      /\ resp[c].header.AccessControlAllowMethods[1] = "GET, OPTIONS"
      /\ resp[c].header.AccessControlAllowHeaders[1] = "Content-Type, Authorization"

\* A backend answered with its own Access-Control-Allow-Origin and the
\* client got the gateway's only.
C13_Witness ==
  \E c \in Callers :
    /\ TilesAnswered(c)
    /\ resp[c].status = StatusOK
    /\ InSteps(c, "forward")
    /\ upstream[c].AccessControlAllowOrigin = << "https://tiles.internal" >>
    /\ resp[c].header = CORSHeaders

(***************************************************************************)
(* Properties of the proxy.                                                *)
(***************************************************************************)
\* NextEndpoint on goroutine c returned the "no healthy endpoints" error.
SelectionFailed(c) == sel[c].err = ErrNoEndpoints

\* C14, as claimed: when the Director's selection fails for want of an
\* endpoint, the outgoing request is left as it was (scheme, host, Host
\* header and path unchanged, none of X-Forwarded-Host, X-Forwarded-Proto and
\* X-Real-IP set), the process keeps running, and the request ends as a
\* gateway error.
C14_FailedSelectionLeavesRequest ==
  \A c \in Callers :
    SelectionFailed(c) =>
      /\ outreq[c] = CloneRequest(req[c])
      /\ outreq[c].header.XForwardedHost = << >>
      /\ outreq[c].header.XForwardedProto = << >>
      /\ outreq[c].header.XRealIP = << >>
      /\ hpc[c] \in {"roundtrip", "done"}
      /\ hpc[c] = "done" => resp[c].status = StatusBadGateway

\* The host the client addressed: r.Host, or the host of the request URL
\* when there is no r.Host.
InboundHost(r) == IF r.host # EmptyString THEN r.host ELSE r.urlHost

\* The Director on goroutine c has rewritten the outgoing request.
Rewritten(c) == Selected(c) /\ hpc[c] \in {"roundtrip", "done"}

\* C15: when the selection succeeds, the outgoing request's scheme and host
\* and its Host header are those of the selected address, X-Forwarded-Host
\* is the original inbound host and not the backend's, X-Forwarded-Proto is
\* https and X-Real-IP is the inbound connection's remote address.
C15_DirectorRewrite ==
  \A c \in Callers :
    Rewritten(c) =>
      /\ outreq[c].urlScheme \o <<"://">> \o outreq[c].urlHost = sel[c].target
      /\ outreq[c].host = outreq[c].urlHost
      /\ outreq[c].header.XForwardedHost = << InboundHost(req[c]) >>
      /\ outreq[c].header.XForwardedHost # << outreq[c].host >>
      /\ outreq[c].header.XForwardedProto = << <<"https">> >>
      /\ outreq[c].header.XRealIP = << req[c].remoteAddr >>

\* A request for civillabs.app was forwarded to 10.0.0.5:8080.
C15_Witness ==
  \E c \in Callers :
    /\ Rewritten(c)
    /\ hpc[c] = "done"
    /\ InSteps(c, "forward")
    /\ req[c].host = <<"civillabs.app">>
    /\ req[c].remoteAddr = <<"203.0.113.10", ":", "40000">>
    /\ sel[c].target = <<"http", "://", "10.0.0.5", ":", "8080">>
    /\ outreq[c].urlScheme = <<"http">>
    /\ outreq[c].host = <<"10.0.0.5", ":", "8080">>
    /\ outreq[c].header.XForwardedHost = << <<"civillabs.app">> >>
    /\ outreq[c].header.XRealIP = << <<"203.0.113.10", ":", "40000">> >>

\* The request on goroutine c was sent to a backend the Director selected.
SentToBackend(c) == Rewritten(c) /\ InSteps(c, "forward")

\* C16, as claimed: a request for /tiles/<p> reaches the backend with the
\* /tiles prefix stripped by an earlier stage of the pipeline (the backend
\* sees /<p>), and the Director leaves the path as it found it.
C16_PrefixStripped ==
  \A c \in Callers :
    /\ Rewritten(c) => outreq[c].path = CloneRequest(req[c]).path
    /\ SentToBackend(c)
         => outreq[c].path = TrimPrefix(URLPath(req[c]), <<"/tiles">>)

(***************************************************************************)
(* Properties of /health.                                                  *)
(***************************************************************************)
\* HealthCheckHandler on goroutine c reads the list and answers in this step.
HealthAnswers(c) == hpc[c] = "ready" /\ hpc'[c] = "done"

\* What a /health request is answered when IsReady reads the present list.
HealthNow == HealthResponse(IsReady(endpoints))

\* The answer of every /health request follows the list it read: 200 "OK"
\* exactly when the list is non-empty, 503 "No tile servers available"
\* exactly when it is empty.
HealthFollowsList ==
  [][ \A c \in Callers :
        HealthAnswers(c) =>
          /\ (resp'[c].status = StatusOK /\ resp'[c].body = "OK")
               <=> Len(endpoints) > 0
          /\ (resp'[c].status = StatusServiceUnavailable
                /\ resp'[c].body = "No tile servers available")
               <=> Len(endpoints) = 0 ]_vars

\* C17, as claimed: the answer of /health follows the list, and it is 503
\* from construction until the first refresh that discovers an instance and
\* 200 once a refresh has discovered one.
C17_AsClaimed ==
  /\ HealthFollowsList
  /\ [][ (HealthNow.status = StatusServiceUnavailable
            /\ HealthNow'.status = StatusOK)
           => (~output.err /\ Len(output.instances) >= 1) ]_vars
  /\ []( (CycleOver /\ ~output.err /\ Len(output.instances) >= 1)
           => HealthNow.status = StatusOK )

\* C17, amended: the answer of /health follows the list, and it is 503 from
\* construction until the first refresh that discovers an instance with an
\* IP attribute and 200 once a refresh has discovered one.
C17_HealthFollowsPool ==
  /\ HealthFollowsList
  /\ [][ (HealthNow.status = StatusServiceUnavailable
            /\ HealthNow'.status = StatusOK)
           => (~output.err
                 /\ \E i \in 1..Len(output.instances) : HasIP(output.instances[i])) ]_vars
  /\ []( (CycleOver /\ ~output.err
            /\ \E i \in 1..Len(output.instances) : HasIP(output.instances[i]))
           => HealthNow.status = StatusOK )

\* One /health request was answered 503 before the first addresses were
\* published and another 200 after.
C17_Witness ==
  \E c1, c2 \in Callers :
    /\ req[c1].path = "/health" /\ hpc[c1] = "done"
    /\ resp[c1].status = StatusServiceUnavailable
    /\ resp[c1].body = "No tile servers available"
    /\ req[c2].path = "/health" /\ hpc[c2] = "done"
    /\ resp[c2].status = StatusOK
    /\ resp[c2].body = "OK"
    /\ Len(endpoints) > 0

(***************************************************************************)
(* Properties of sequential selection.                                     *)
(***************************************************************************)
\* The address the n-th selection of the trace returns when the selections
\* are made one after the other against list.
NthAddress(list, start, n) == list[((start + n) % Len(list)) + 1]

\* C18: selections made one after the other against an unchanged list
\* return addresses that are a function of the counter's start value and the
\* list order; with two addresses A, B and a start value that makes A come
\* first, three selections return A, B, A.
C18_SequentialSelections ==
  history.keep =>
    /\ \A n \in 1..Len(history.log) :
         history.log[n] = NthAddress(endpoints, history.start, n)
    /\ (Len(endpoints) = 2 /\ Len(history.log) >= 3
          /\ history.log[1] = endpoints[1])
         => SubSeq(history.log, 1, 3) = << endpoints[1], endpoints[2], endpoints[1] >>

\* Three selections against two addresses, the first of which came first.
C18_Witness ==
  /\ history.keep
  /\ endpoints = << <<"http", "://", "10.0.0.5", ":", "8080">>,
                    <<"http", "://", "10.0.0.6">> >>
  /\ history.start = 1
  /\ history.log = << endpoints[1], endpoints[2], endpoints[1] >>
  /\ hpc["g1"] = "done"

(***************************************************************************)
(* Properties of StartPolling.                                             *)
(***************************************************************************)
\* Goroutine c is handling a request.
Handling(c) == hpc[c] # "idle"

\* The polling goroutine has been started.
TaskStarted == mainpc # "StartPolling"

\* C19: StartPolling runs one refresh to its end before it starts the
\* polling goroutine and before the gateway serves: whenever the goroutine
\* exists, a request is being handled, a selection has taken a counter value
\* or a health check has been answered, the first refresh is over.
C19_FirstRefreshBeforeServing ==
  /\ TaskStarted => history.refreshed
  /\ ppc \in {"select", "stopped"} => history.refreshed
  /\ mainpc = "ListenAndServe" => history.refreshed
  /\ \A c \in Callers : Handling(c) => history.refreshed
  /\ rrCounter # 0 => history.refreshed

\* A request was forwarded and another answered by /health while the second
\* refresh was waiting for the registry.
C19_Witness ==
  /\ history.refreshed
  /\ ppc = "discover"
  /\ \E c1, c2 \in Callers :
       /\ hpc[c1] = "done" /\ Selected(c1)
       /\ hpc[c2] = "done" /\ req[c2].path = "/health"

(***************************************************************************)
(* Properties of the shutdown.                                             *)
(***************************************************************************)
\* The polling goroutine has returned.
Stopped == ppc = "stopped"

\* C20: once the context is cancelled the polling goroutine terminates
\* sooner or later; after that it runs no refresh, and its termination
\* neither blocks nor cancels a request: it touches no request and leaves
\* the lock free, and a request at the Director still gets its selection
\* made.
C20_PollerStops ==
  /\ ctxDone ~> Stopped
  /\ [][ Stopped => /\ Stopped'
                    /\ UNCHANGED << endpoints, before, output, newEndpoints >> ]_vars
  /\ [][ (~Stopped /\ Stopped')
           => UNCHANGED << handlerVars, mu, endpoints, rrCounter >> ]_vars
  /\ [](Stopped => ~mu.writer)
  /\ (Stopped /\ hpc["g1"] = "director") ~> (hpc["g1"] = "roundtrip")

\* The polling goroutine has returned while a selection holds the read lock.
C20_Witness ==
  /\ ctxDone
  /\ Stopped
  /\ hpc["g1"] = "index"
  /\ mu.readers = 1

(***************************************************************************)
(* Properties of the refresh cycle.                                        *)
(***************************************************************************)
\* The polling goroutine is at its select (backend.go:53).
AtSelect == ppc = "select"

\* C21: at most one execution of refreshEndpoints is in progress at any
\* time: the first one has ended when the polling goroutine is started, and
\* the loop enters a refresh only when none is running; and each pass of the
\* loop either runs one refresh or takes the cancellation and returns, after
\* which no refresh is entered.
C21_RefreshesNeverOverlap ==
  /\ [](history.active <= 1)
  /\ []((AtSelect \/ Stopped) => history.active = 0)
  /\ [][ history.active' > history.active => history.active = 0 ]_vars
  /\ [][ (AtSelect /\ ~AtSelect')
           => \/ ppc' = "refresh" /\ history.active' = 0
              \/ Stopped' /\ ctxDone /\ history.active' = 0 ]_vars
  /\ [][ Stopped => Stopped' /\ history.active' = 0 ]_vars

\* The loop runs a refresh after the cancellation, the ticker's case having
\* been taken, with the first refresh long over.
C21_Witness ==
  /\ ctxDone
  /\ history.refreshed
  /\ mainpc = "ListenAndServe"
  /\ ppc = "discover"
  /\ history.active = 1

\* The registry call of the running refresh is outstanding.
QueryInFlight == ppc = "discover"

\* C22: the write lock is not held while the registry query is in flight:
\* it is held only by a refresh that has its new list built, non-empty, from
\* the instances returned, and only until that list is published; while the
\* query is outstanding a selection or a readiness check can take the read
\* lock.
C22_NoLockDuringQuery ==
  /\ QueryInFlight => (~mu.writer /\ RLockFree(mu))
  /\ mu.writer =>
       /\ ppc = "locked"
       /\ ~output.err
       /\ newEndpoints = BuildEndpoints(output.instances)
       /\ Len(newEndpoints) > 0
  /\ ppc \in {"refresh", "discover", "lock", "return", "go", "select", "stopped"}
       => ~mu.writer

\* While the registry call is outstanding one request has been forwarded, a
\* health check has been answered, and a selection holds the read lock.
C22_Witness ==
  /\ QueryInFlight
  /\ mu.readers = 1
  /\ \E c1, c2 \in Callers :
       /\ hpc[c1] = "index"
       /\ hpc[c2] = "done" /\ req[c2].path = "/health"
       /\ resp[c2].status = StatusOK

(***************************************************************************)
(* Properties of the selection counter.                                    *)
(***************************************************************************)
\* NextEndpoint on goroutine c has returned to the Director.
CallReturned(c) == ReachedDirector(c) /\ hpc[c] \in {"roundtrip", "done"}

\* Goroutine c executes the atomic add of backend.go:112 in this step.
Increments(c) == hpc[c] = "add" /\ hpc'[c] = "mod"

\* The counter never decreases, moves only by the add of a selection and
\* then by exactly one, and a selection returns the address at index
\* (counter value it obtained) modulo (length of the list).
CounterSteps ==
  /\ [][ rrCounter' >= rrCounter ]_vars
  /\ [][ \A c \in Callers : Increments(c) =>
           (rrCounter' = rrCounter + 1 /\ sel'[c].val = rrCounter') ]_vars
  /\ [][ rrCounter' # rrCounter => \E c \in Callers : Increments(c) ]_vars
  /\ [](\A c \in Callers :
          Selected(c) =>
            sel[c].target =
              sel[c].seenIndex[(sel[c].val % Len(sel[c].seenIndex)) + 1])

\* C23, as claimed: the counter is monotonically increasing and every call
\* of NextEndpoint, successful or failed, increments it exactly once; the
\* address returned is the one at index counter modulo address count.
C23_AsClaimed ==
  /\ CounterSteps
  /\ [](\A c \in Callers : CallReturned(c) => sel[c].val # -1)

\* C23, amended: the counter is monotonically increasing (short of its
\* wrap-around) and every successful call of NextEndpoint increments it
\* exactly once, while a call that fails on the empty list does not
\* increment it; the address returned is the one at index (counter value
\* obtained) modulo (address count).
C23_CounterPerSelection ==
  /\ CounterSteps
  /\ [](\A c \in Callers :
          CallReturned(c) =>
            /\ Selected(c) <=> sel[c].val # -1
            /\ SelectionFailed(c) <=> sel[c].val = -1
            /\ Selected(c) \/ SelectionFailed(c))

\* One call failed on the empty list and took no counter value; a later call
\* succeeded with the counter's first value.
C23_Witness ==
  \E c1, c2 \in Callers :
    /\ CallReturned(c1) /\ SelectionFailed(c1) /\ sel[c1].val = -1
    /\ CallReturned(c2) /\ Selected(c2) /\ sel[c2].val = 1
    /\ rrCounter = 1

(***************************************************************************)
(* Properties of the address building.                                     *)
(***************************************************************************)
\* The running refresh has its result and has built its new list.
ListBuilt == ppc \in {"lock", "locked", "return"} /\ ~output.err

\* The returned instances that have an IP attribute, in returned order.
Addressable(instances) == SelectSeq(instances, HasIP)

\* C24: an instance without an IP attribute contributes no address to the
\* new list, an instance with an IP and no port contributes scheme://ip (and
\* one with both scheme://ip:port); a refresh whose instances all lack an IP
\* leaves the list as it found it, like an empty result.
C24_InstancesWithoutIP ==
  /\ ListBuilt =>
       LET usable == Addressable(output.instances) IN
       /\ Len(newEndpoints) = Len(usable)
       /\ \A i \in 1..Len(usable) :
            LET ip   == Attr(usable[i], "AWS_INSTANCE_IPV4")
                port == Attr(usable[i], "AWS_INSTANCE_PORT")
            IN  newEndpoints[i] =
                  IF port = EmptyString
                    THEN <<"http", "://">> \o ip
                    ELSE <<"http", "://">> \o ip \o <<":">> \o port
  /\ (CycleOver /\ ~output.err /\ Addressable(output.instances) = << >>)
       => endpoints = before

\* A refresh over a non-empty list was returned one instance, which has a
\* port and no IP, and the list is as it was.
C24_Witness ==
  /\ CycleOver
  /\ ~output.err
  /\ Len(output.instances) = 1
  /\ ~HasIP(output.instances[1])
  /\ Attr(output.instances[1], "AWS_INSTANCE_PORT") # EmptyString
  /\ newEndpoints = << >>
  /\ before # << >>
  /\ endpoints = before

(***************************************************************************)
(* Properties of the rotation from construction on.                        *)
(***************************************************************************)
\* Goroutine c has taken its counter value.
HasValue(c) == sel[c].val # -1

\* C25: the counter is incremented before it is used: counted from
\* construction, and short of the wrap, the n-th successful selection holds
\* the counter value n and returns the address at index n mod K of the list
\* of K addresses it reads; so the first selection of a fresh manager with
\* two or more addresses returns the second address of the list, not the
\* first.
C25_IncrementBeforeUse ==
  /\ \A c \in Callers : HasValue(c) => sel[c].val \in 1..rrCounter
  /\ \A c1, c2 \in Callers :
       (c1 # c2 /\ HasValue(c1) /\ HasValue(c2)) => sel[c1].val # sel[c2].val
  /\ \A c \in Callers :
       Selected(c) =>
         LET n == sel[c].val
             K == Len(sel[c].seenIndex)
         IN  /\ sel[c].index = n % K
             /\ sel[c].target = sel[c].seenIndex[(n % K) + 1]
             /\ (n = 1 /\ K >= 2) =>
                  /\ sel[c].target = sel[c].seenIndex[2]
                  /\ sel[c].target # sel[c].seenIndex[1]

\* The first selection since construction, against two addresses, returned
\* the second.
C25_Witness ==
  \E c \in Callers :
    /\ Selected(c)
    /\ rrCounter = 1
    /\ sel[c].val = 1
    /\ Len(sel[c].seenIndex) = 2
    /\ sel[c].target = sel[c].seenIndex[2]

(***************************************************************************)
(* Frame properties of the pool manager's state.                           *)
(***************************************************************************)
\* Goroutine c takes a step in this step.
Steps(c) == hpc'[c] # hpc[c]

\* The poller takes a step in this step.
PollerSteps == ppc' # ppc

\* C26: the counter is changed only by the add of a selection, and a
\* selection is made only for an authentic tiles request that is no
\* preflight: the steps of a refresh (successful, empty or failed), of a
\* health check with its IsReady, of a preflight and of a request the token
\* verifier rejects leave the counter as it is, and the refresh step that
\* replaces the list does not reset it; the list is changed only by the
\* publishing step of a refresh, never by a step of a request.
C26_CounterAndListFrames ==
  /\ [][ rrCounter' # rrCounter =>
           \E c \in Callers :
             /\ Increments(c)
             /\ TilesCall(c)
             /\ Authentic(req[c]) ]_vars
  /\ [][ PollerSteps => rrCounter' = rrCounter ]_vars
  /\ [][ endpoints' # endpoints =>
           /\ ppc = "locked" /\ ppc' = "return"
           /\ rrCounter' = rrCounter ]_vars
  /\ [][ \A c \in Callers : Steps(c) => endpoints' = endpoints ]_vars
  /\ [][ \A c \in Callers :
           (Steps(c) /\ (req'[c].path = "/health" \/ PreflightCall(c)'
                           \/ (TilesCall(c)' /\ ~Authentic(req'[c]))))
             => rrCounter' = rrCounter ]_vars

\* A refresh has replaced the list after a selection, and the counter stands
\* where the selection left it, while a request with a token for another
\* client has been refused.
C26_Witness ==
  /\ CycleOver
  /\ before # << >>
  /\ endpoints # before
  /\ rrCounter = 1
  /\ \E c \in Callers :
       /\ TilesCall(c)
       /\ hpc[c] = "done"
       /\ resp[c].status = StatusUnauthorized

(***************************************************************************)
(* Properties of the rotation across the wrap of the counter.              *)
(***************************************************************************)
\* C27, as claimed: when the counter wraps round, every selected index still
\* lies within the list, and the rotation goes on in list order across the
\* wrap, each selection returning the address after the one returned before
\* it (the first after the last), none skipped and none repeated, whatever
\* the size of the pool.
C27_RotationAcrossWrap ==
  /\ \A c \in Callers :
       Selected(c) => sel[c].index \in 0..(Len(sel[c].seenIndex) - 1)
  /\ \A n \in 1..Len(history.log) : history.log[n] \in Range(endpoints)
  /\ \A n \in 1..(Len(history.log) - 1) :
       Pos(endpoints, history.log[n + 1])
         = (Pos(endpoints, history.log[n]) % Len(endpoints)) + 1

====
